---- MODULE Spec2Model ----
(***************************************************************************)
(* The compute -> render frame loop of GPGPU-Image-Drawing.                *)
(*                                                                         *)
(* Two event loops exist in the repository: the modular one (App with      *)
(* GpuState, ComputeState, RenderState; app.rs, gpu.rs, compute.rs,        *)
(* render.rs) and the monolithic closure in main.rs.  The variable impl    *)
(* selects which of the two a behaviour runs.                              *)
(*                                                                         *)
(* Spec        : the host side of the event loop.  Every call the handlers *)
(*               make on the surface, the queue and the process is         *)
(*               appended to log in program order.                         *)
(* SpecCompute : what the device does with one submitted compute pass:     *)
(*               the off-screen image as pixel memory, written by the      *)
(*               kernel's invocations.                                     *)
(***************************************************************************)
EXTENDS Integers, Sequences, FiniteSets, TLC

VARIABLES
    impl,             \* "app" (App::run) or "main" (the closure in main.rs)
    pc,               \* position of the host in the event loop
    surface_format,   \* the format negotiated at construction
    surface_config,   \* GpuState.surface_config (app.rs only keeps one)
    surface,          \* the configuration last applied with surface.configure
    redraw_requested, \* window.request_redraw() is pending
    frame,            \* the SurfaceTexture held by render_frame, 0 = none
    acquired,         \* number of frames handed out by the surface so far
    exit_code,        \* -1 while the process runs
    log,              \* the calls made so far, in program order
    output_texture,   \* descriptor of the off-screen image
    image,            \* pixel memory of the off-screen image: image[y][x]
    compute_state,    \* ComputeState: the view and what its bind group binds
    render_state,     \* RenderState: what its bind group binds, its target format
    twin              \* the other event loop, fed the same events and outcomes

vars == <<impl, pc, surface_format, surface_config, surface, redraw_requested,
          frame, acquired, exit_code, log, output_texture, image,
          compute_state, render_state, twin>>

-----------------------------------------------------------------------------
(* Program constants *)

WIDTH == 512
HEIGHT == 512
DispatchDivisor == 8
WorkgroupSize == 8
ShaderScale == 512
QuadVertices == 4
MaxFrameLatency == 2

(* Bounds of the model *)

MaxEvents == 3
MaxDim == 9
MaxDispatch == 2

Impls == {"app", "main"}
Formats == {"Bgra8UnormSrgb", "Rgba8UnormSrgb"}
Widths == {0, 320, 512, 640}
Heights == {0, 240, 480}
AbortCodes == {101, 134}
Fills == {<<0, 0, 0, 0>>, <<255, 255, 255, 255>>}
Sizes == ((1..MaxDim) \X (1..MaxDim)) \cup {<<WIDTH, HEIGHT>>}

-----------------------------------------------------------------------------
(* The log *)

E(ev, x, y) == [ev |-> ev, x |-> x, y |-> y]

InputEvents == {"about_to_wait", "resized", "redraw_requested", "close_requested"}

Positions(l, evs) == {i \in 1..Len(l) : l[i].ev \in evs}

Count(l, ev) == Cardinality(Positions(l, {ev}))

Min(S) == CHOOSE m \in S : \A n \in S : m <= n

Delivered == Cardinality(Positions(log, InputEvents))

-----------------------------------------------------------------------------
(* Device / surface context *)

SurfaceConfiguration(format, width, height) ==
    [format |-> format, width |-> width, height |-> height,
     present_mode |-> "Fifo", desired_maximum_frame_latency |-> MaxFrameLatency]


\* resize that configures the surface with the new size but does not keep it.
resize_NotStored(config, width, height) ==
    <<config, [config EXCEPT !.width = width, !.height = height]>>

\* GpuState::resize: store the new size, then configure the surface with the
\* stored configuration.  Yields <<stored configuration, applied configuration>>.
resize(config, width, height) ==
    LET stored == [config EXCEPT !.width = width, !.height = height]
    IN  <<stored, stored>>

\* GpuState::reconfigure_surface: configure the surface with the stored
\* configuration.  Yields <<stored configuration, applied configuration>>.
reconfigure_surface(config) == <<config, config>>

\* A resize arm that asks for another presentation mode.
MainResizeConfig_Mailbox(format, width, height) ==
    [SurfaceConfiguration(format, width, height) EXCEPT !.present_mode = "Mailbox"]

\* main.rs, WindowEvent::Resized: configure with a literal built from the event.
MainResizeConfig(format, width, height) == SurfaceConfiguration(format, width, height)

\* main.rs, Err(_) arm of get_current_texture: configure with a literal built
\* from WIDTH and HEIGHT.
MainRecoveryConfig(format) == SurfaceConfiguration(format, WIDTH, HEIGHT)

\* What the Resized arm of event loop im does with the size of the event.
\* Yields <<stored configuration, applied configuration>>.
ResizeSurface(im, stored, format, width, height) ==
    IF im = "app" THEN resize(stored, width, height)
                  ELSE <<stored, MainResizeConfig(format, width, height)>>

\* What the Err(_) arm of event loop im configures the surface with.
\* Yields <<stored configuration, applied configuration>>.
RecoverSurface(im, stored, format) ==
    IF im = "app" THEN reconfigure_surface(stored)
                  ELSE <<stored, MainRecoveryConfig(format)>>

\* Neither loop looks at the size before it calls surface.configure.  A
\* configuration of zero area is not a valid one: the call does not return.
ZeroArea(config) == config.width = 0 \/ config.height = 0

OtherImpl(im) == IF im = "app" THEN "main" ELSE "app"

-----------------------------------------------------------------------------
(* Pipelines and their bind groups *)

\* ComputeState::new: one texture, one view of it, bound at binding 0 of the
\* compute bind group as a write-only storage texture.
ComputeStateNew(view) ==
    [output_view |-> view,
     bind_group |-> [storage_texture |-> view]]

\* A render stage that samples a texture of its own.
RenderStateNew_OwnTexture(compute, format) ==
    [bind_group |-> [texture |-> "Render Texture", sampler |-> "default"],
     target_format |-> format]

\* RenderState::new: the render bind group binds compute_state.output_view at
\* binding 0 and a default sampler at binding 1; the pipeline's colour target
\* has the surface format it is given.
RenderStateNew(compute, format) ==
    [bind_group |-> [texture |-> compute.output_view, sampler |-> "default"],
     target_format |-> format]

-----------------------------------------------------------------------------
(* Compute stage *)

\* ComputeState::dispatch(encoder, width, height): the grid handed to
\* dispatch_workgroups.  u32 division truncates.
WorkgroupGrid(width, height) ==
    <<width \div DispatchDivisor, height \div DispatchDivisor, 1>>


\* A frame loop that never submits the compute pass.
SubmitCompute_Skipped(l) == l

\* The frame loop's step 1: encode the compute pass and submit it.
SubmitCompute(l) ==
    LET grid == WorkgroupGrid(WIDTH, HEIGHT)
    IN  Append(l, E("submit_compute", grid[1], grid[2]))

\* RenderState::render + queue.submit: one render pass against the view of the
\* given frame, one draw of the 4-vertex strip.
SubmitRender(l, target) == Append(l, E("submit_render", target, QuadVertices))

-----------------------------------------------------------------------------
(* The event loop *)

\* The two loops share every line of the handlers but the two calls of
\* surface.configure: where this one makes a call, the other makes the same.
TwinFollows ==
    twin' = [twin EXCEPT !.log = twin.log \o SubSeq(log', Len(log) + 1, Len(log'))]

Init ==
    /\ impl \in Impls
    /\ pc = "idle"
    /\ surface_format \in Formats
    /\ surface_config = SurfaceConfiguration(surface_format, WIDTH, HEIGHT)
    /\ surface = SurfaceConfiguration(surface_format, WIDTH, HEIGHT)
    /\ redraw_requested = FALSE
    /\ frame = 0
    /\ acquired = 0
    /\ exit_code = -1
    /\ log = << >>
    /\ output_texture = [width |-> WIDTH, height |-> HEIGHT, format |-> "Rgba8Unorm"]
    /\ image = << >>   \* texel memory is followed under SpecCompute only
    /\ compute_state = ComputeStateNew("Compute Output Texture")
    /\ render_state = RenderStateNew(compute_state, surface_format)
    /\ twin = [impl |-> OtherImpl(impl),
               surface_config |-> SurfaceConfiguration(surface_format, WIDTH, HEIGHT),
               surface |-> SurfaceConfiguration(surface_format, WIDTH, HEIGHT),
               log |-> << >>]

\* Event::AboutToWait, up to the first get_current_texture.  queue.submit hands
\* the compute pass to the device and returns; the host does not touch the
\* image.  What the device does with the pass is ExecuteCompute, below.
AboutToWait ==
    /\ pc = "idle"
    /\ Delivered < MaxEvents
    /\ log' = SubmitCompute(Append(log, E("about_to_wait", 0, 0)))
    /\ pc' = "acquire"
    /\ UNCHANGED <<impl, surface_format, surface_config, surface, redraw_requested,
                   frame, acquired, exit_code, output_texture, image>>
    /\ UNCHANGED <<compute_state, render_state>>
    /\ TwinFollows

\* get_current_texture returns Ok(frame).
AcquireOk ==
    /\ pc = "acquire"
    /\ acquired' = acquired + 1
    /\ frame' = acquired + 1
    /\ log' = Append(log, E("acquire", 1, acquired + 1))
    /\ pc' = "render"
    /\ UNCHANGED <<impl, surface_format, surface_config, surface, redraw_requested,
                   exit_code, output_texture, image>>
    /\ UNCHANGED <<compute_state, render_state>>
    /\ TwinFollows

\* get_current_texture returns Err(_): reconfigure the surface.
AcquireErr ==
    /\ pc = "acquire"
    /\ LET r == RecoverSurface(impl, surface_config, surface_format)
           t == RecoverSurface(twin.impl, twin.surface_config, surface_format)
       IN  /\ surface_config' = r[1]
           /\ surface' = r[2]
           /\ log' = log \o << E("acquire", 0, 0),
                               E("configure", r[2].width, r[2].height) >>
           /\ twin' = [twin EXCEPT
                          !.surface_config = t[1],
                          !.surface = t[2],
                          !.log = twin.log \o << E("acquire", 0, 0),
                                      E("configure", t[2].width, t[2].height) >>]
    /\ pc' = "retry"
    /\ UNCHANGED <<impl, surface_format, redraw_requested, frame, acquired,
                   exit_code, output_texture, image>>
    /\ UNCHANGED <<compute_state, render_state>>


\* A retry that starts the frame over, dispatching the compute pass again.
RetryOk_Redispatch ==
    /\ pc = "retry"
    /\ acquired' = acquired + 1
    /\ frame' = acquired + 1
    /\ log' = Append(SubmitCompute(log), E("acquire", 1, acquired + 1))
    /\ pc' = "render"
    /\ UNCHANGED <<impl, surface_format, surface_config, surface, redraw_requested,
                   exit_code, output_texture, image>>
    /\ UNCHANGED <<compute_state, render_state>>
    /\ TwinFollows

\* The second get_current_texture returns Ok(frame).
RetryOk ==
    /\ pc = "retry"
    /\ acquired' = acquired + 1
    /\ frame' = acquired + 1
    /\ log' = Append(log, E("acquire", 1, acquired + 1))
    /\ pc' = "render"
    /\ UNCHANGED <<impl, surface_format, surface_config, surface, redraw_requested,
                   exit_code, output_texture, image>>
    /\ UNCHANGED <<compute_state, render_state>>
    /\ TwinFollows


\* An open-ended retry: a second failure reconfigures and tries again.
RetryErr_Loops ==
    /\ pc = "retry"
    /\ log' = log \o << E("acquire", 0, 0),
                        E("configure", surface.width, surface.height) >>
    /\ UNCHANGED <<impl, pc, surface_format, surface_config, surface,
                   redraw_requested, frame, acquired, exit_code, output_texture,
                   image>>
    /\ UNCHANGED <<compute_state, render_state>>
    /\ TwinFollows

\* The second get_current_texture returns Err(_): expect() panics.  The exit
\* status of a panic depends on the build (unwind or abort).
RetryErr ==
    /\ pc = "retry"
    /\ \E code \in AbortCodes :
          /\ log' = log \o << E("acquire", 0, 0), E("panic", code, 0) >>
          /\ exit_code' = code
    /\ pc' = "aborted"
    /\ UNCHANGED <<impl, surface_format, surface_config, surface, redraw_requested,
                   frame, acquired, output_texture, image>>
    /\ UNCHANGED <<compute_state, render_state>>
    /\ TwinFollows

\* create_view, render pass, queue.submit.
Render ==
    /\ pc = "render"
    /\ log' = SubmitRender(log, frame)
    /\ pc' = "present"
    /\ UNCHANGED <<impl, surface_format, surface_config, surface, redraw_requested,
                   frame, acquired, exit_code, output_texture, image>>
    /\ UNCHANGED <<compute_state, render_state>>
    /\ TwinFollows


\* A handler that drops the frame without presenting it.
Present_Dropped ==
    /\ pc = "present"
    /\ frame' = 0
    /\ pc' = "idle"
    /\ UNCHANGED <<impl, surface_format, surface_config, surface, redraw_requested,
                   acquired, exit_code, log, output_texture, image>>
    /\ UNCHANGED <<compute_state, render_state>>
    /\ TwinFollows

\* frame.present(); the frame is consumed and the handler returns.
Present ==
    /\ pc = "present"
    /\ log' = Append(log, E("present", frame, 0))
    /\ frame' = 0
    /\ pc' = "idle"
    /\ UNCHANGED <<impl, surface_format, surface_config, surface, redraw_requested,
                   acquired, exit_code, output_texture, image>>
    /\ UNCHANGED <<compute_state, render_state>>
    /\ TwinFollows

\* WindowEvent::Resized(size).  A size of zero area (a minimised window) is
\* passed on to surface.configure like any other; the process ends there.
Resized(width, height) ==
    /\ pc = "idle"
    /\ Delivered < MaxEvents
    /\ LET r == ResizeSurface(impl, surface_config, surface_format, width, height)
           t == ResizeSurface(twin.impl, twin.surface_config, surface_format,
                              width, height)
           calls == << E("resized", width, height),
                       E("configure", r[2].width, r[2].height) >>
           twinCalls == << E("resized", width, height),
                           E("configure", t[2].width, t[2].height) >>
       IN  /\ surface_config' = r[1]
           /\ surface' = r[2]
           /\ IF ZeroArea(r[2])
              THEN \E code \in AbortCodes :
                      /\ log' = log \o calls \o << E("panic", code, 0) >>
                      /\ twin' = [twin EXCEPT
                                     !.surface_config = t[1],
                                     !.surface = t[2],
                                     !.log = twin.log \o twinCalls
                                                \o << E("panic", code, 0) >>]
                      /\ pc' = "aborted"
                      /\ exit_code' = code
                      /\ UNCHANGED redraw_requested
              ELSE /\ log' = log \o calls \o << E("request_redraw", 0, 0) >>
                   /\ twin' = [twin EXCEPT
                                  !.surface_config = t[1],
                                  !.surface = t[2],
                                  !.log = twin.log \o twinCalls
                                             \o << E("request_redraw", 0, 0) >>]
                   /\ redraw_requested' = TRUE
                   /\ UNCHANGED <<pc, exit_code>>
    /\ UNCHANGED <<impl, surface_format, frame, acquired, output_texture, image>>
    /\ UNCHANGED <<compute_state, render_state>>

\* WindowEvent::RedrawRequested falls into the `_ => {}` arm.
RedrawRequested ==
    /\ pc = "idle"
    /\ Delivered < MaxEvents
    /\ redraw_requested
    /\ redraw_requested' = FALSE
    /\ log' = Append(log, E("redraw_requested", 0, 0))
    /\ UNCHANGED <<impl, pc, surface_format, surface_config, surface, frame,
                   acquired, exit_code, output_texture, image>>
    /\ UNCHANGED <<compute_state, render_state>>
    /\ TwinFollows


\* A close request that is noted but does not end the process.
CloseRequested_Continues ==
    /\ pc = "idle"
    /\ Delivered < MaxEvents
    /\ log' = log \o << E("close_requested", 0, 0), E("exit", 0, 0) >>
    /\ exit_code' = 0
    /\ UNCHANGED <<impl, pc, surface_format, surface_config, surface,
                   redraw_requested, frame, acquired, output_texture, image>>
    /\ UNCHANGED <<compute_state, render_state>>
    /\ TwinFollows

\* WindowEvent::CloseRequested: process::exit(0).
CloseRequested ==
    /\ pc = "idle"
    /\ Delivered < MaxEvents
    /\ log' = log \o << E("close_requested", 0, 0), E("exit", 0, 0) >>
    /\ pc' = "exited"
    /\ exit_code' = 0
    /\ UNCHANGED <<impl, surface_format, surface_config, surface, redraw_requested,
                   frame, acquired, output_texture, image>>
    /\ UNCHANGED <<compute_state, render_state>>
    /\ TwinFollows

Next ==
    \/ AboutToWait
    \/ AcquireOk
    \/ AcquireErr
    \/ RetryOk
    \/ RetryErr
    \/ Render
    \/ Present
    \/ \E width \in Widths, height \in Heights : Resized(width, height)
    \/ RedrawRequested
    \/ CloseRequested

Spec == Init /\ [][Next]_vars

\* The dispatcher hands out AboutToWait whenever its queue has drained, every
\* call of get_current_texture returns, and a handler that has started runs to
\* its end.  Window events (resize, close) may or may not arrive.
SpecLive ==
    /\ Init
    /\ [][Next]_vars
    /\ WF_vars(AboutToWait)
    /\ WF_vars(AcquireOk \/ AcquireErr)
    /\ WF_vars(RetryOk \/ RetryErr)
    /\ WF_vars(Render)
    /\ WF_vars(Present)

-----------------------------------------------------------------------------
(* The device executing one compute pass on the off-screen image *)

\* ComputeState::new: the texture is created with the given size; its memory
\* holds whatever the starting contents are.
NewImage(width, height, fill) ==
    [y \in 0..(height - 1) |-> [x \in 0..(width - 1) |-> fill]]

\* The kernel's colour for the invocation with global id (x, y), each channel
\* an exact fraction <<numerator, denominator>>:
\* vec4(f32(gid.x) / 512.0, f32(gid.y) / 512.0, 0.5, 1.0).
ShaderColor(x, y) == << <<x, ShaderScale>>, <<y, ShaderScale>>, <<1, 2>>, <<1, 1>> >>


\* An encoding that truncates instead of rounding to the nearest level.
Unorm8_Truncates(c) == (255 * c[1]) \div c[2]

\* Encoding of a channel value in [0, 1] into an 8-bit unorm channel of the
\* rgba8unorm storage texture: the nearest of the levels 0/255 .. 255/255.
Unorm8(c) == (2 * 255 * c[1] + c[2]) \div (2 * c[2])

\* textureStore(out_image, gid.xy, color) into rgba8unorm.
TextureStore(color) ==
    <<Unorm8(color[1]), Unorm8(color[2]), Unorm8(color[3]), Unorm8(color[4])>>

\* The invocations of a dispatch: grid[1] x grid[2] workgroups of
\* @workgroup_size(8, 8); invocation (x, y) exists iff it lies in that range.
Invoked(grid, x, y) ==
    /\ x < grid[1] * WorkgroupSize
    /\ y < grid[2] * WorkgroupSize


\* A pass that blends into what the texel held instead of overwriting it.
ExecuteCompute_Accumulates(img, tex, grid) ==
    [y \in 0..(tex.height - 1) |->
        [x \in 0..(tex.width - 1) |->
            IF Invoked(grid, x, y)
            THEN [c \in 1..4 |->
                     (img[y][x][c] + TextureStore(ShaderColor(x, y))[c]) % 256]
            ELSE img[y][x]]]

\* The image after the device ran the pass: each invocation inside the
\* texture stores its colour at its own coordinate, every other texel keeps
\* its contents (stores outside the texture are discarded).
ExecuteCompute(img, tex, grid) ==
    [y \in 0..(tex.height - 1) |->
        [x \in 0..(tex.width - 1) |->
            IF Invoked(grid, x, y) THEN TextureStore(ShaderColor(x, y))
                                   ELSE img[y][x]]]

\* ComputeState::new(device, shaders, width, height) for some size and some
\* starting contents of the texture memory.
InitCompute ==
    /\ impl = "app"
    /\ pc = "idle"
    /\ surface_format \in Formats
    /\ surface_config = SurfaceConfiguration(surface_format, WIDTH, HEIGHT)
    /\ surface = SurfaceConfiguration(surface_format, WIDTH, HEIGHT)
    /\ redraw_requested = FALSE
    /\ frame = 0
    /\ acquired = 0
    /\ exit_code = -1
    /\ log = << >>
    /\ \E size \in Sizes, fill \in Fills :
          /\ output_texture = [width |-> size[1], height |-> size[2],
                               format |-> "Rgba8Unorm"]
          /\ image = NewImage(size[1], size[2], fill)
    /\ compute_state = ComputeStateNew("Compute Output Texture")
    /\ render_state = RenderStateNew(compute_state, surface_format)
    /\ twin = [impl |-> OtherImpl(impl),
               surface_config |-> SurfaceConfiguration(surface_format, WIDTH, HEIGHT),
               surface |-> SurfaceConfiguration(surface_format, WIDTH, HEIGHT),
               log |-> << >>]

\* compute_state.dispatch(encoder, width, height) with the size the texture
\* was created with, queue.submit, and the device running the pass.
Dispatch ==
    /\ pc = "idle"
    /\ Count(log, "submit_compute") < MaxDispatch
    /\ LET grid == WorkgroupGrid(output_texture.width, output_texture.height)
       IN  /\ log' = Append(log, E("submit_compute", grid[1], grid[2]))
           /\ image' = ExecuteCompute(image, output_texture, grid)
    /\ UNCHANGED <<impl, pc, surface_format, surface_config, surface,
                   redraw_requested, frame, acquired, exit_code, output_texture>>
    /\ UNCHANGED <<compute_state, render_state>>
    /\ UNCHANGED twin

NextCompute == Dispatch

SpecCompute == InitCompute /\ [][NextCompute]_vars

-----------------------------------------------------------------------------
(* Reading the log *)

IsAcquire(e) == e.ev = "acquire"

IsSubmit(e) == e.ev \in {"submit_compute", "submit_render"}

LogEnd == Len(log)

\* A redraw iteration starts at every about_to_wait and extends to the call
\* before the next delivered event, or to the end of the log.
IterStarts == Positions(log, {"about_to_wait"})

IterEnd(i) ==
    LET later == {j \in Positions(log, InputEvents) : j > i}
    IN  IF later = {} THEN LogEnd ELSE Min(later) - 1

Iteration(i) == SubSeq(log, i, IterEnd(i))

\* The iteration starting at i has finished (returned or panicked).
IterOver(i) == IterEnd(i) < LogEnd \/ pc \in {"idle", "exited", "aborted"}

IsPrefix(s, t) == Len(s) <= Len(t) /\ s = SubSeq(t, 1, Len(s))

\* The size of the most recent resize, the construction size if there was none.
LastKnownSize ==
    LET rs == Positions(log, {"resized"})
    IN  IF rs = {} THEN <<WIDTH, HEIGHT>>
        ELSE LET i == CHOOSE m \in rs : \A n \in rs : n <= m
             IN  <<log[i].x, log[i].y>>

CeilDiv(a, b) == (a + b - 1) \div b

Abs(n) == IF n < 0 THEN -n ELSE n

-----------------------------------------------------------------------------
\* C1: in every redraw iteration acquisition is attempted at most twice; a
\* failed first attempt is followed by exactly one reconfigure and exactly one
\* retry; a failed retry aborts the process, and that iteration has no render
\* submission, no present and no further acquisition.
C1_AcquireAtMostTwice ==
    \A i \in IterStarts :
        LET s == Iteration(i)
            acq == SelectSeq(s, IsAcquire)
            firstFailed == Len(acq) >= 1 /\ acq[1].x = 0
        IN  /\ Len(acq) <= 2
            /\ Count(s, "configure") = (IF firstFailed THEN 1 ELSE 0)
            /\ Len(acq) = 2 => firstFailed
            /\ (firstFailed /\ IterOver(i)) => Len(acq) = 2
            /\ (firstFailed /\ Len(acq) = 2) =>
                   \E k \in 1..(Len(s) - 2) :
                       /\ s[k].ev = "acquire"
                       /\ s[k + 1].ev = "configure"
                       /\ s[k + 2].ev = "acquire"
            /\ (Len(acq) = 2 /\ acq[2].x = 0) =>
                   /\ pc = "aborted"
                   /\ exit_code # 0
                   /\ exit_code # -1
                   /\ Count(s, "submit_render") = 0
                   /\ Count(s, "present") = 0
                   /\ IterEnd(i) = LogEnd
                   /\ s[Len(s)].ev = "panic"

\* A second failure has happened after an earlier complete frame.
C1_Witness ==
    /\ pc = "aborted"
    /\ Count(log, "acquire") >= 3
    /\ Count(log, "present") >= 1

\* C2: when the first acquisition fails and the retry succeeds, the same
\* iteration submits the render pass against the retried frame and presents it,
\* and its compute pass was submitted once only.
C2_RetryThenPresent ==
    \A i \in IterStarts :
        LET s == Iteration(i)
            acq == SelectSeq(s, IsAcquire)
        IN  (Len(acq) = 2 /\ acq[2].x = 1) =>
                LET f == acq[2].y
                    k == CHOOSE n \in 1..Len(s) : s[n] = acq[2]
                    rest == SubSeq(s, k + 1, Len(s))
                    due == << E("submit_render", f, QuadVertices), E("present", f, 0) >>
                IN  /\ IsPrefix(rest, due)
                    /\ IterOver(i) => rest = due
                    /\ ~IterOver(i) => frame = f
                    /\ Count(s, "submit_compute") = 1

\* A recovered iteration has completed.
C2_Witness ==
    /\ pc = "idle"
    /\ \E i \in 1..(LogEnd - 4) :
          /\ log[i] = E("acquire", 0, 0)
          /\ log[i + 1].ev = "configure"
          /\ log[i + 2].ev = "acquire" /\ log[i + 2].x = 1
          /\ log[i + 3] = E("submit_render", log[i + 2].y, QuadVertices)
          /\ log[i + 4] = E("present", log[i + 2].y, 0)

\* C3: the submissions to the queue alternate compute, render, compute, ...:
\* in each iteration the compute submission comes first, and the render
\* submission of an iteration precedes the compute submission of the next.
C3_ComputeBeforeRender ==
    /\ LET subs == SelectSeq(log, IsSubmit)
       IN  \A k \in 1..Len(subs) :
              subs[k].ev = (IF k % 2 = 1 THEN "submit_compute" ELSE "submit_render")
    /\ \A i \in IterStarts :
          LET s == Iteration(i)
          IN  /\ Len(s) >= 2 /\ s[2].ev = "submit_compute"
              /\ Count(s, "submit_compute") = 1
              /\ Count(s, "submit_render") <= 1

\* A second iteration has submitted its compute pass after a first one
\* submitted its render pass.
C3_Witness ==
    /\ Count(log, "submit_render") >= 1
    /\ Count(log, "submit_compute") >= 2

\* C4: right after a resize to (w2, h2) the surface is configured with, and
\* GpuState stores, width w2 and height h2; the off-screen image keeps its
\* construction-time size of 512 x 512 throughout.
C4_ResizeKeepsImage ==
    /\ output_texture.width = 512
    /\ output_texture.height = 512
    /\ (LogEnd >= 3 /\ log[LogEnd - 2].ev = "resized") =>
           /\ surface.width = log[LogEnd - 2].x
           /\ surface.height = log[LogEnd - 2].y
           /\ impl = "app" =>
                  /\ surface_config.width = log[LogEnd - 2].x
                  /\ surface_config.height = log[LogEnd - 2].y

\* A resize to 640 x 480 was just handled, after a frame was presented and
\* the surface had been configured once before.
C4_Witness ==
    /\ impl = "app"
    /\ LogEnd >= 3
    /\ log[LogEnd - 2] = E("resized", 640, 480)
    /\ Count(log, "present") >= 1
    /\ Count(log, "configure") >= 2

\* C5: the reconfigure that recovers from a failed acquisition applies the
\* last known size (that of the most recent resize) and leaves the stored
\* configuration as it was.
C5_RecoveryUsesLastConfig ==
    pc = "retry" =>
        /\ log[LogEnd].ev = "configure"
        /\ log[LogEnd].x = LastKnownSize[1]
        /\ log[LogEnd].y = LastKnownSize[2]
        /\ surface.width = LastKnownSize[1]
        /\ surface.height = LastKnownSize[2]
        /\ impl = "app" =>
               /\ surface_config.width = LastKnownSize[1]
               /\ surface_config.height = LastKnownSize[2]

\* C6: a close request ends the process with exit code 0, and nothing is
\* submitted, acquired or presented after it.
C6_CloseExitsZero ==
    /\ \A i \in Positions(log, {"close_requested"}) :
          /\ LogEnd = i + 1
          /\ log[i + 1] = E("exit", 0, 0)
          /\ pc = "exited"
          /\ exit_code = 0
    /\ pc = "exited" => (frame = 0 /\ log[LogEnd].ev = "exit")

\* The process was closed after it had presented a frame.
C6_Witness ==
    /\ pc = "exited"
    /\ Count(log, "present") >= 1
    /\ Delivered < MaxEvents

\* C7: a dispatch for a width and height issues ceil(width/8) x ceil(height/8)
\* x 1 workgroups, so its invocations cover [0, width) x [0, height).
C7_GridIsCeiling ==
    (LogEnd >= 1 /\ log[LogEnd].ev = "submit_compute") =>
        LET grid == <<log[LogEnd].x, log[LogEnd].y, 1>>
        IN  /\ grid[1] = CeilDiv(output_texture.width, 8)
            /\ grid[2] = CeilDiv(output_texture.height, 8)
            /\ \A y \in 0..(output_texture.height - 1) :
                  \A x \in 0..(output_texture.width - 1) : Invoked(grid, x, y)

\* The image was created with the program's size, or another whole number of
\* workgroups per side.
WholeWorkgroups ==
    /\ output_texture.width % WorkgroupSize = 0
    /\ output_texture.height % WorkgroupSize = 0

\* C8 as stated: after a dispatch the texel at (x, y) is exactly
\* (x/512, y/512, 0.5, 1.0), a stored channel b standing for b/255.
C8_ExactGradient ==
    (Count(log, "submit_compute") >= 1 /\ WholeWorkgroups) =>
        \A y \in 0..(output_texture.height - 1) :
            \A x \in 0..(output_texture.width - 1) :
                /\ image[y][x][1] * 512 = 255 * x
                /\ image[y][x][2] * 512 = 255 * y
                /\ image[y][x][3] * 2 = 255
                /\ image[y][x][4] = 255

\* C8, amended: after a dispatch every texel (x, y) of the image holds the
\* 8-bit levels nearest to (x/512, y/512, 0.5, 1.0), each within 1/510 of the
\* stated value, whatever the image held before.
C8_QuantizedGradient ==
    (Count(log, "submit_compute") >= 1 /\ WholeWorkgroups) =>
        \A y \in 0..(output_texture.height - 1) :
            \A x \in 0..(output_texture.width - 1) :
                /\ image[y][x] = <<(255 * x + 256) \div 512,
                                   (255 * y + 256) \div 512, 128, 255>>
                /\ 2 * Abs(512 * image[y][x][1] - 255 * x) <= 512
                /\ 2 * Abs(512 * image[y][x][2] - 255 * y) <= 512
                /\ Abs(2 * image[y][x][3] - 255) <= 1

\* The 512 x 512 image has been dispatched over; its last texel holds
\* (255, 255, 128, 255), where the stated value is (511/512, 511/512, 0.5, 1).
C8_Witness ==
    /\ Count(log, "submit_compute") = 1
    /\ output_texture.width = 512
    /\ output_texture.height = 512
    /\ image[511][511] = <<255, 255, 128, 255>>
    /\ image[0][1] = <<0, 0, 128, 255>>

\* C9: a dispatch that follows a dispatch, the size unchanged, leaves the
\* image exactly as the first one left it.
C9_DispatchIdempotent ==
    [][Count(log, "submit_compute") >= 1 => image' = image]_vars

\* Two dispatches have run over an image that the kernel does not cover
\* entirely, so that rewritten and retained texels both occur.
C9_Witness ==
    /\ Count(log, "submit_compute") = 2
    /\ output_texture.width = 9
    /\ output_texture.height = 8
    /\ image[0][0] = <<0, 0, 128, 255>>
    /\ image[0][8] = <<255, 255, 255, 255>>

\* C10: a frame is held only inside a redraw iteration; every acquired frame
\* is the target of one render submission and is presented once, with no
\* delivered event and no acquisition in between; presents never outnumber
\* redraw iterations.
C10_FramePresentedOnce ==
    /\ frame # 0 => pc \in {"render", "present"}
    /\ pc \in {"render", "present"} => frame = acquired
    /\ Count(log, "present") <= Count(log, "about_to_wait")
    /\ \A i \in Positions(log, {"acquire"}) :
          log[i].x = 1 =>
              LET f == log[i].y
                  rest == SubSeq(log, i + 1, LogEnd)
                  due == << E("submit_render", f, QuadVertices), E("present", f, 0) >>
              IN  /\ IF Len(rest) >= 2 THEN SubSeq(rest, 1, 2) = due
                                       ELSE IsPrefix(rest, due)
                  /\ pc = "idle" => Len(rest) >= 2
                  /\ Cardinality({j \in 1..LogEnd : log[j] = E("acquire", 1, f)}) = 1
                  /\ Cardinality({j \in 1..LogEnd : log[j].ev = "submit_render" /\ log[j].x = f}) <= 1
                  /\ Cardinality({j \in 1..LogEnd : log[j].ev = "present" /\ log[j].x = f}) <= 1

\* Two frames were presented and a resize was handled between them.
C10_Witness ==
    /\ pc = "idle"
    /\ Count(log, "present") = 2
    /\ \E i, j, k \in 1..LogEnd :
          /\ i < j /\ j < k
          /\ log[i].ev = "present"
          /\ log[j].ev = "resized"
          /\ log[k].ev = "present"

-----------------------------------------------------------------------------
\* The handler of a resize has just returned.
JustResized == LogEnd >= 3 /\ log[LogEnd].ev = "request_redraw"

\* The last call was a present, made while the surface was configured with
\* the size of the most recent resize.
PresentedAtLastSize ==
    /\ LogEnd >= 1
    /\ log[LogEnd].ev = "present"
    /\ surface.width = LastKnownSize[1]
    /\ surface.height = LastKnownSize[2]

\* C11: a resize notification configures the surface with the new size and
\* then requests a redraw; unless acquisition fails fatally, or a close or a
\* further resize arrives, a frame is eventually presented, and the frames
\* that follow the resize are presented while the surface is configured with
\* that size.
C11_ResizeLeadsToFrame ==
    /\ [](JustResized =>
             /\ log[LogEnd - 2].ev = "resized"
             /\ log[LogEnd - 1] = E("configure", log[LogEnd - 2].x, log[LogEnd - 2].y)
             /\ redraw_requested)
    /\ []((LogEnd >= 1 /\ log[LogEnd].ev = "present" /\ Count(log, "resized") >= 1)
             => PresentedAtLastSize)
    /\ \A n \in 1..MaxEvents :
          [](  (JustResized /\ Count(log, "resized") = n /\ Delivered <= MaxEvents - 2)
            => <>(\/ PresentedAtLastSize
                  \/ pc \in {"exited", "aborted"}
                  \/ Count(log, "resized") > n))

\* C12: the texture the render bind group samples is the view the compute
\* bind group writes, the one view ComputeState created, in every state; no
\* step replaces either binding.
C12_RenderSamplesComputeTarget ==
    /\ [](/\ render_state.bind_group.texture = compute_state.bind_group.storage_texture
          /\ compute_state.bind_group.storage_texture = compute_state.output_view
          /\ compute_state.output_view = "Compute Output Texture")
    /\ [][/\ compute_state' = compute_state
          /\ render_state' = render_state]_vars

\* A frame was recovered and presented, and a resize handled after it.
C12_Witness ==
    /\ JustResized
    /\ Count(log, "present") >= 1
    /\ \E i \in 1..LogEnd : log[i] = E("acquire", 0, 0)

\* C13: the surface is always configured with the format negotiated at
\* construction, which is the render pipeline's target format, with FIFO
\* presentation and a maximum frame latency of 2; a step changes nothing of
\* the applied or the stored configuration but width and height.
C13_OnlySizeChanges ==
    /\ [](/\ surface.format = surface_format
          /\ render_state.target_format = surface_format
          /\ surface.present_mode = "Fifo"
          /\ surface.desired_maximum_frame_latency = 2
          /\ surface_config.format = surface_format
          /\ surface_config.present_mode = "Fifo"
          /\ surface_config.desired_maximum_frame_latency = 2)
    /\ [][/\ surface' = [surface EXCEPT !.width = surface'.width,
                                        !.height = surface'.height]
          /\ surface_config' = [surface_config EXCEPT
                                    !.width = surface_config'.width,
                                    !.height = surface_config'.height]
          /\ surface_format' = surface_format
          /\ render_state.target_format' = render_state.target_format]_vars

\* The monolithic loop has resized and then recovered, under the second of
\* the formats.
C13_Witness ==
    /\ impl = "main"
    /\ surface_format = "Rgba8UnormSrgb"
    /\ pc = "retry"
    /\ Count(log, "resized") >= 1
    /\ LastKnownSize # <<WIDTH, HEIGHT>>

\* C14: the surface is only ever configured with a strictly positive width
\* and a strictly positive height, whatever sizes the resize notifications
\* carry.
C14_PositiveArea ==
    /\ surface.width > 0
    /\ surface.height > 0
    /\ \A i \in Positions(log, {"configure"}) : log[i].x > 0 /\ log[i].y > 0

IsObservable(e) == e.ev \in {"configure", "submit_compute", "submit_render", "present"}

\* C15: fed the same events and the same acquisition outcomes, the modular
\* and the monolithic loop make the same surface configurations, compute
\* submissions, render submissions and presents, in the same order.
C15_LoopsEquivalent ==
    SelectSeq(log, IsObservable) = SelectSeq(twin.log, IsObservable)

====
